---- MODULE Spec2Model ----
(***************************************************************************)
(* Model of crates/goose/src/providers/omg.rs: the OmgProvider adapter and *)
(* its single side-effecting operation, Provider::complete.                *)
(*                                                                         *)
(* A call of complete is a process with its own locals (headers,           *)
(* api_messages, the loop cursor, the response, the decoded ChatResponse)  *)
(* and a position pc.  The instance (client, api_key, model) is shared by  *)
(* all calls.  The vendor's server and the transport are the environment:  *)
(* they answer a sent request with any response of a given set, or fail.   *)
(*                                                                         *)
(* Strings that only travel (texts, model names) are TLA+ strings; the API *)
(* key is a sequence of bytes because HeaderValue::from_str inspects its   *)
(* bytes.  A JSON value is a record tagged by t: "absent" (no such field), *)
(* "null", "str", "int", "int64" (a JSON integer outside the range of i32, *)
(* which the i32 fields of ApiUsage reject), "obj" (an object, with its    *)
(* fields), "arr" (an array, with its items) or "wrong" (a value that is   *)
(* none of these, where serde expects one of them).  The derived           *)
(* Deserialize of a struct accepts an object and also an array that gives  *)
(* the struct's fields by position.                                        *)
(*                                                                         *)
(* response is the reply as the server sent it; pc tells how much of it    *)
(* the call has read.                                                      *)
(***************************************************************************)
EXTENDS Naturals, Sequences, FiniteSets

VARIABLES inst, pc, args, headers, api_messages, cursor, posts, request,
          response, chat_response, result

vars == <<inst, pc, args, headers, api_messages, cursor, posts, request,
          response, chat_response, result>>

---------------------------------------------------------------------------
(* Bounds of the model. *)

\* conversations hold at most MaxSize messages and content parts in total
MaxSize == 4
\* a response's choices array holds at most MaxChoices elements
MaxChoices == 2

(* The tasks that may call complete on the one instance. *)
Calls == {1, 2}

---------------------------------------------------------------------------
(* Constants of the program. *)

OMG_API_URL == "https://api.ohmygpt.com/v1"
OMG_DEFAULT_MODEL == "gpt-4o"
OMG_KNOWN_MODELS == {"gpt-4o", "claude-3-5-sonnet"}

None == [t |-> "none"]

\* a text (a Rust String that is carried, never inspected)
RawText(s) == [kind |-> "text", text |-> s]

---------------------------------------------------------------------------
(* The caller's inputs: Message, MessageContent, Role. *)

Roles == {"User", "Assistant"}

TextPart(s) == [kind |-> "Text", text |-> s]

\* the content parts a caller may pass: two texts and one non-text part
Parts == {TextPart("a"), TextPart("b"), [kind |-> "Image"]}

\* messages with exactly k content parts
MessagesWith(k) == {[role |-> r, content |-> p] : r \in Roles, p \in [1..k -> Parts]}

\* conversations whose messages and parts number exactly w in total
RECURSIVE ConversationsOfSize(_)
ConversationsOfSize(w) ==
    IF w = 0 THEN {<<>>}
    ELSE UNION {{<<m>> \o rest : m \in MessagesWith(k - 1),
                                 rest \in ConversationsOfSize(w - k)} : k \in 1..w}

Conversations == UNION {ConversationsOfSize(w) : w \in 0..MaxSize}

FewConversations ==
    {<<>>,
     <<[role |-> "User", content |-> <<TextPart("a")>>],
       [role |-> "Assistant", content |-> <<[kind |-> "Image"], TextPart("b")>>]>>}

ConcurrentConversations ==
    {<<>>,
     <<[role |-> "User", content |-> <<TextPart("a"), [kind |-> "Image"]>>]>>,
     <<[role |-> "Assistant", content |-> <<TextPart("b")>>],
       [role |-> "User", content |-> <<TextPart("a")>>]>>}

Systems == {"", "be brief"}

---------------------------------------------------------------------------
(* The instance: OmgProvider { client, api_key, model }. *)

\* "sk", "s\tk", "s\nk", "s\x7Fk" and a key with a non-ASCII character (UTF-8)
Keys == {<<115, 107>>, <<115, 9, 107>>, <<115, 10, 107>>, <<115, 127, 107>>,
         <<115, 195, 169>>}
PlainKeys == {<<115, 107>>, <<115, 10, 107>>}

Instance(k, m) == [client |-> "client", api_key |-> k, model |-> [model_name |-> m]]

Instances(ks) == {Instance(k, m) : k \in ks, m \in OMG_KNOWN_MODELS}

---------------------------------------------------------------------------
(* The environment: what the vendor's server may answer. *)

Absent == [t |-> "absent"]
Wrong == [t |-> "wrong"]
Null == [t |-> "null"]
JStr(s) == [t |-> "str", s |-> s]
JInt(n) == [t |-> "int", n |-> n]
JInt64 == [t |-> "int64"]

JContents == {Absent, Wrong, JStr(""), JStr("hi")}
JMessages == {Absent} \cup {[t |-> "obj", content |-> c] : c \in JContents}
JChoices == {[t |-> "obj", message |-> m] : m \in JMessages}
JChoiceArrays == UNION {[1..n -> JChoices] : n \in 0..MaxChoices}
JChoicesFields == {Absent, Wrong} \cup {[t |-> "arr", items |-> a] : a \in JChoiceArrays}

JTokens == {Absent, Wrong, JInt64, JInt(3), JInt(7)}
JUsageFields ==
    {Absent, Null, Wrong} \cup
    {[t |-> "obj", prompt_tokens |-> p, completion_tokens |-> c, total_tokens |-> n] :
        p \in JTokens, c \in JTokens, n \in JTokens}

JModelFields == {Absent, JStr("gpt-4o"), JStr("gpt-4o-2024-08-06")}

JArr(items) == [t |-> "arr", items |-> items]

JsonBody(ch, us, mo) ==
    [kind |-> "json", t |-> "obj", choices |-> ch, usage |-> us, model |-> mo]

\* a body that is an array: the fields of ChatResponse by position
JsonArrayBody(items) == [kind |-> "json", t |-> "arr", items |-> items]

JsonBodies == {JsonBody(ch, us, mo) : ch \in JChoicesFields, us \in JUsageFields,
                                      mo \in JModelFields}

GoodChoice(s) == [t |-> "obj", message |-> [t |-> "obj", content |-> JStr(s)]]
GoodUsage(p, c, n) ==
    [t |-> "obj", prompt_tokens |-> JInt(p), completion_tokens |-> JInt(c),
     total_tokens |-> JInt(n)]

SampleBodies ==
    {RawText("rate limited"),
     JsonBody([t |-> "arr", items |-> <<GoodChoice("hi")>>], GoodUsage(3, 7, 3), Absent),
     JsonBody([t |-> "arr", items |-> <<GoodChoice(""), GoodChoice("hi")>>], Absent,
              JStr("gpt-4o-2024-08-06")),
     JsonBody([t |-> "arr", items |-> <<>>], Absent, Absent),
     JsonBody(JArr(<<GoodChoice("hi")>>), JArr(<<JInt(3), JInt(7), JInt(3)>>), Absent)}

\* bodies that give the fields of a struct by position, at each level
PositionalBodies ==
    {JsonBody(JArr(<<GoodChoice("hi")>>), JArr(u), Absent) :
        u \in {<<>>, <<JInt(3), JInt(7)>>, <<JInt(7), JInt(3), JInt(3)>>,
               <<JInt(3), Wrong, JInt(3)>>, <<JInt(3), JInt64, JInt(3)>>,
               <<JInt(3), Null, JInt(3)>>, <<JInt(3), JInt(7), JInt(3), JInt(7)>>}} \cup
    {JsonBody(JArr(<<ch>>), Absent, JStr("gpt-4o-2024-08-06")) :
        ch \in {JArr(<<[t |-> "obj", content |-> JStr("hi")]>>),
                JArr(<<JArr(<<JStr("hi")>>)>>),
                JArr(<<>>),
                JArr(<<[t |-> "obj", content |-> JStr("hi")], Null>>),
                [t |-> "obj", message |-> JArr(<<JStr("")>>)],
                [t |-> "obj", message |-> JArr(<<Wrong>>)],
                [t |-> "obj", message |-> JArr(<<JStr(""), JStr("hi")>>)]}} \cup
    {JsonArrayBody(b) :
        b \in {<<>>,
               <<JArr(<<GoodChoice("hi")>>)>>,
               <<JArr(<<GoodChoice("hi")>>), Null>>,
               <<JArr(<<GoodChoice(""), GoodChoice("hi")>>), GoodUsage(7, 3, 7)>>,
               <<JArr(<<>>), JArr(<<JInt(3), JInt(7), JInt(3)>>)>>,
               <<JArr(<<GoodChoice("hi")>>), Wrong>>,
               <<Wrong, Null>>,
               <<JArr(<<GoodChoice("hi")>>), Null, JStr("gpt-4o")>>}}

Response(s, rd, b) == [t |-> "some", status |-> s, readable |-> rd, body |-> b]

\* every body under status 200, and a sample of bodies under other statuses
\* and under a body stream that breaks while it is read
Responses ==
    {Response(200, TRUE, b) :
        b \in JsonBodies \cup PositionalBodies \cup {RawText("rate limited")}} \cup
    {Response(s, rd, b) : s \in {199, 204, 299, 300, 404, 500}, rd \in BOOLEAN,
                          b \in SampleBodies} \cup
    {Response(200, FALSE, b) : b \in SampleBodies}

FewResponses ==
    {Response(s, TRUE, b) : s \in {200, 404}, b \in SampleBodies}

\* chrono::Utc::now().timestamp() at the end of a call
Times == {1700000000, 1700000001}

---------------------------------------------------------------------------
(* Helpers of complete. *)

\* "Bearer " as bytes
Bearer == <<66, 101, 97, 114, 101, 114, 32>>

\* http::HeaderValue::from_str accepts a byte b iff b >= 32 && b != 127 || b == '\t'
ValidHeaderValue(bytes) ==
    \A k \in 1..Len(bytes) : (bytes[k] >= 32 /\ bytes[k] # 127) \/ bytes[k] = 9

\* mutant of RoleName: every entry is sent as the user's
RoleNameAlwaysUser(role) == "user"

\* the match on message.role
RoleName(role) == IF role = "User" THEN "user" ELSE "assistant"

\* mutant of IsSuccess: only the statuses below 200 count as failures
IsSuccessNoUpperBound(status) == 200 <= status

\* reqwest::StatusCode::is_success
IsSuccess(status) == 200 <= status /\ status < 300

Err(kind, text) == [t |-> "err", error |-> kind, text |-> text]

---------------------------------------------------------------------------
(* serde's Deserialize of ChatResponse, Choice, ChatMessage and ApiUsage. *)

\* a struct of n fields is read from an object, or from an array of exactly
\* n items that gives the fields in the order of their declaration
StructOk(j, n) == j.t = "obj" \/ (j.t = "arr" /\ Len(j.items) = n)

\* the value read for the k-th field, called name, of a struct
FieldOf(j, name, k) == IF j.t = "obj" THEN j[name] ELSE j.items[k]

\* an i32 field: a JSON integer within the range of i32
TokenOk(j) == j.t = "int"

\* ChatMessage { content: String }
MessageOk(j) ==
    /\ StructOk(j, 1)
    /\ FieldOf(j, "content", 1).t = "str"

\* Choice { message: ChatMessage }
ChoiceOk(j) ==
    /\ StructOk(j, 1)
    /\ MessageOk(FieldOf(j, "message", 1))

\* ApiUsage { prompt_tokens, completion_tokens, total_tokens: i32 }
ApiUsageOk(j) ==
    /\ StructOk(j, 3)
    /\ TokenOk(FieldOf(j, "prompt_tokens", 1))
    /\ TokenOk(FieldOf(j, "completion_tokens", 2))
    /\ TokenOk(FieldOf(j, "total_tokens", 3))

\* usage: Option<ApiUsage>
UsageOk(j) == j.t \in {"absent", "null"} \/ ApiUsageOk(j)

\* ChatResponse { choices: Vec<Choice>, usage: Option<ApiUsage> }
Decodable(body) ==
    /\ body.kind = "json"
    /\ StructOk(body, 2)
    /\ FieldOf(body, "choices", 1).t = "arr"
    /\ \A k \in 1..Len(FieldOf(body, "choices", 1).items) :
          ChoiceOk(FieldOf(body, "choices", 1).items[k])
    /\ UsageOk(FieldOf(body, "usage", 2))

DecodeUsage(j) ==
    IF j.t \in {"absent", "null"}
    THEN None
    ELSE [t |-> "some", prompt_tokens |-> FieldOf(j, "prompt_tokens", 1).n,
          completion_tokens |-> FieldOf(j, "completion_tokens", 2).n,
          total_tokens |-> FieldOf(j, "total_tokens", 3).n]

DecodeChoice(j) ==
    [message |-> [content |-> FieldOf(FieldOf(j, "message", 1), "content", 1).s]]

Decode(body) ==
    [t |-> "some",
     choices |-> [k \in 1..Len(FieldOf(body, "choices", 1).items) |->
                     DecodeChoice(FieldOf(body, "choices", 1).items[k])],
     usage |-> DecodeUsage(FieldOf(body, "usage", 2))]

---------------------------------------------------------------------------
(* Usage and ProviderUsage (crate::providers::base). *)

Some(n) == [t |-> "some", n |-> n]

UsageNew(p, c, n) == [input_tokens |-> p, output_tokens |-> c, total_tokens |-> n]

UsageDefault == UsageNew(None, None, None)

ProviderUsageNew(model, usage) == [model |-> model, usage |-> usage]

\* mutant of ExtractUsage: a missing usage object is reported as zero counts
ExtractUsageZeroed(cr) ==
    IF cr.usage.t = "some"
    THEN UsageNew(Some(cr.usage.prompt_tokens), Some(cr.usage.completion_tokens),
                  Some(cr.usage.total_tokens))
    ELSE UsageNew(Some(0), Some(0), Some(0))

\* the usage record of a decoded response
ExtractUsage(cr) ==
    IF cr.usage.t = "some"
    THEN UsageNew(Some(cr.usage.prompt_tokens), Some(cr.usage.completion_tokens),
                  Some(cr.usage.total_tokens))
    ELSE UsageDefault

\* mutant of BuildResult: the last choice is used instead of the first
BuildResultLastChoice(cr, model, now) ==
    IF Len(cr.choices) = 0
    THEN [t |-> "panic"]
    ELSE [t |-> "ok",
          message |-> [role |-> "Assistant", created |-> now,
                       content |-> <<TextPart(cr.choices[Len(cr.choices)].message.content)>>],
          usage |-> ProviderUsageNew(model, ExtractUsage(cr))]

\* the message and the returned pair; choices[0] of an empty Vec panics
BuildResult(cr, model, now) ==
    IF Len(cr.choices) = 0
    THEN [t |-> "panic"]
    ELSE [t |-> "ok",
          message |-> [role |-> "Assistant", created |-> now,
                       content |-> <<TextPart(cr.choices[1].message.content)>>],
          usage |-> ProviderUsageNew(model, ExtractUsage(cr))]

---------------------------------------------------------------------------
(* The state after construction: an instance, and no call in progress. *)

NoCursor == [i |-> 0, j |-> 0]

InitWith(insts) ==
    /\ inst \in insts
    /\ pc = [c \in Calls |-> "idle"]
    /\ args = [c \in Calls |-> None]
    /\ headers = [c \in Calls |-> None]
    /\ api_messages = [c \in Calls |-> <<>>]
    /\ cursor = [c \in Calls |-> NoCursor]
    /\ posts = [c \in Calls |-> 0]
    /\ request = [c \in Calls |-> None]
    /\ response = [c \in Calls |-> None]
    /\ chat_response = [c \in Calls |-> None]
    /\ result = [c \in Calls |-> None]

---------------------------------------------------------------------------
(* complete, step by step. *)

\* a task calls complete(system, messages, _tools)
Begin(c, systems, conversations) ==
    /\ pc[c] = "idle"
    /\ \E s \in systems, m \in conversations :
          args' = [args EXCEPT ![c] = [t |-> "some", system |-> s, messages |-> m]]
    /\ pc' = [pc EXCEPT ![c] = "create_headers"]
    /\ UNCHANGED <<inst, headers, api_messages, cursor, posts, request, response,
                   chat_response, result>>

\* mutant of CreateHeaders: a header value that fails to parse is left out
\* and the call goes on
CreateHeadersLenient(c) ==
    /\ pc[c] = "create_headers"
    /\ headers' = [headers EXCEPT ![c] =
          [t |-> "some", content_type |-> "application/json",
           authorization |-> Bearer \o inst.api_key]]
    /\ pc' = [pc EXCEPT ![c] = "push_system"]
    /\ UNCHANGED <<inst, args, api_messages, cursor, posts, request, response,
                   chat_response, result>>

\* let headers = self.create_headers()?;
CreateHeaders(c) ==
    /\ pc[c] = "create_headers"
    /\ LET value == Bearer \o inst.api_key IN
          IF ValidHeaderValue(value)
          THEN /\ headers' = [headers EXCEPT ![c] =
                      [t |-> "some", content_type |-> "application/json",
                       authorization |-> value]]
               /\ pc' = [pc EXCEPT ![c] = "push_system"]
               /\ UNCHANGED result
          ELSE /\ result' = [result EXCEPT ![c] =
                      Err("ExecutionError", RawText("failed to parse header value"))]
               /\ pc' = [pc EXCEPT ![c] = "done"]
               /\ UNCHANGED headers
    /\ UNCHANGED <<inst, args, api_messages, cursor, posts, request, response,
                   chat_response>>

\* mutant of PushSystem: the system entry is pushed even when system is empty
PushSystemAlways(c) ==
    /\ pc[c] = "push_system"
    /\ api_messages' = [api_messages EXCEPT ![c] =
          <<[role |-> "system", content |-> args[c].system]>>]
    /\ cursor' = [cursor EXCEPT ![c] = [i |-> 1, j |-> 1]]
    /\ pc' = [pc EXCEPT ![c] = "loop"]
    /\ UNCHANGED <<inst, args, headers, posts, request, response, chat_response,
                   result>>

\* let mut api_messages = Vec::new(); if !system.is_empty() { push }
PushSystem(c) ==
    /\ pc[c] = "push_system"
    /\ api_messages' = [api_messages EXCEPT ![c] =
          IF args[c].system # ""
          THEN <<[role |-> "system", content |-> args[c].system]>>
          ELSE <<>>]
    /\ cursor' = [cursor EXCEPT ![c] = [i |-> 1, j |-> 1]]
    /\ pc' = [pc EXCEPT ![c] = "loop"]
    /\ UNCHANGED <<inst, args, headers, posts, request, response, chat_response,
                   result>>

\* mutant of LoopStep: api_messages is one buffer of the instance, shared by
\* the calls in progress, instead of a local of each call
LoopStepSharedBuffer(c) ==
    /\ pc[c] = "loop"
    /\ cursor[c].i <= Len(args[c].messages)
    /\ LET message == args[c].messages[cursor[c].i] IN
          IF cursor[c].j > Len(message.content)
          THEN /\ cursor' = [cursor EXCEPT ![c] = [i |-> cursor[c].i + 1, j |-> 1]]
               /\ UNCHANGED api_messages
          ELSE /\ cursor' = [cursor EXCEPT ![c] = [i |-> cursor[c].i, j |-> cursor[c].j + 1]]
               /\ LET content == message.content[cursor[c].j] IN
                     IF content.kind = "Text"
                     THEN api_messages' = [d \in Calls |->
                              IF pc[d] = "loop"
                              THEN Append(api_messages[d],
                                          [role |-> RoleName(message.role),
                                           content |-> content.text])
                              ELSE api_messages[d]]
                     ELSE UNCHANGED api_messages
    /\ UNCHANGED <<inst, pc, args, headers, posts, request, response, chat_response,
                   result>>

\* one step of the nested loops over messages and their content parts
LoopStep(c) ==
    /\ pc[c] = "loop"
    /\ cursor[c].i <= Len(args[c].messages)
    /\ LET message == args[c].messages[cursor[c].i] IN
          IF cursor[c].j > Len(message.content)
          THEN /\ cursor' = [cursor EXCEPT ![c] = [i |-> cursor[c].i + 1, j |-> 1]]
               /\ UNCHANGED api_messages
          ELSE /\ cursor' = [cursor EXCEPT ![c] = [i |-> cursor[c].i, j |-> cursor[c].j + 1]]
               /\ LET content == message.content[cursor[c].j] IN
                     IF content.kind = "Text"
                     THEN api_messages' = [api_messages EXCEPT ![c] =
                              Append(@, [role |-> RoleName(message.role),
                                         content |-> content.text])]
                     ELSE UNCHANGED api_messages
    /\ UNCHANGED <<inst, pc, args, headers, posts, request, response, chat_response,
                   result>>

\* self.client.post(..).headers(headers).json(..).send()
Send(c) ==
    /\ pc[c] = "loop"
    /\ cursor[c].i > Len(args[c].messages)
    /\ request' = [request EXCEPT ![c] =
          [t |-> "some", method |-> "POST", url |-> <<OMG_API_URL, "/chat/completions">>,
           headers |-> headers[c],
           body |-> [model |-> inst.model.model_name, messages |-> api_messages[c]]]]
    /\ posts' = [posts EXCEPT ![c] = @ + 1]
    /\ pc' = [pc EXCEPT ![c] = "inflight"]
    /\ UNCHANGED <<inst, args, headers, api_messages, cursor, response, chat_response,
                   result>>

\* .await.map_err(|e| ProviderError::ExecutionError(e.to_string()))?
TransportFail(c) ==
    /\ pc[c] = "inflight"
    /\ result' = [result EXCEPT ![c] = Err("ExecutionError", RawText("error sending request"))]
    /\ pc' = [pc EXCEPT ![c] = "done"]
    /\ UNCHANGED <<inst, args, headers, api_messages, cursor, posts, request, response,
                   chat_response>>

\* .await returns the response, and its status is checked at once; the call
\* then waits for the body, as text or as JSON
Receive(c, responses) ==
    /\ pc[c] = "inflight"
    /\ \E r \in responses :
          /\ response' = [response EXCEPT ![c] = r]
          /\ pc' = [pc EXCEPT ![c] = IF IsSuccess(r.status) THEN "read_json" ELSE "read_text"]
    /\ UNCHANGED <<inst, args, headers, api_messages, cursor, posts, request,
                   chat_response, result>>

\* response.text().await ends: return Err(RequestFailed(error_text))
ReadText(c) ==
    /\ pc[c] = "read_text"
    /\ result' = [result EXCEPT ![c] =
          IF response[c].readable
          THEN Err("RequestFailed", response[c].body)
          ELSE Err("ExecutionError", RawText("error decoding response body"))]
    /\ pc' = [pc EXCEPT ![c] = "done"]
    /\ UNCHANGED <<inst, args, headers, api_messages, cursor, posts, request, response,
                   chat_response>>

\* response.json().await ends: the ChatResponse, or ExecutionError
ReadJson(c) ==
    /\ pc[c] = "read_json"
    /\ IF response[c].readable /\ Decodable(response[c].body)
       THEN /\ chat_response' = [chat_response EXCEPT ![c] = Decode(response[c].body)]
            /\ pc' = [pc EXCEPT ![c] = "decoded"]
            /\ UNCHANGED result
       ELSE /\ result' = [result EXCEPT ![c] =
                   Err("ExecutionError", RawText("error decoding response body"))]
            /\ pc' = [pc EXCEPT ![c] = "done"]
            /\ UNCHANGED chat_response
    /\ UNCHANGED <<inst, args, headers, api_messages, cursor, posts, request, response>>

\* usage, message and the returned pair
Reconstruct(c) ==
    /\ pc[c] = "decoded"
    /\ \E now \in Times :
          result' = [result EXCEPT ![c] =
              BuildResult(chat_response[c], inst.model.model_name, now)]
    /\ pc' = [pc EXCEPT ![c] = "done"]
    /\ UNCHANGED <<inst, args, headers, api_messages, cursor, posts, request, response,
                   chat_response>>

\* the call is over (returned or unwound); the task may call again
Return(c) ==
    /\ pc[c] = "done"
    /\ pc' = [pc EXCEPT ![c] = "idle"]
    /\ args' = [args EXCEPT ![c] = None]
    /\ headers' = [headers EXCEPT ![c] = None]
    /\ api_messages' = [api_messages EXCEPT ![c] = <<>>]
    /\ cursor' = [cursor EXCEPT ![c] = NoCursor]
    /\ posts' = [posts EXCEPT ![c] = 0]
    /\ request' = [request EXCEPT ![c] = None]
    /\ response' = [response EXCEPT ![c] = None]
    /\ chat_response' = [chat_response EXCEPT ![c] = None]
    /\ result' = [result EXCEPT ![c] = None]
    /\ UNCHANGED inst

Step(c, systems, conversations, responses) ==
    \/ Begin(c, systems, conversations)
    \/ CreateHeaders(c)
    \/ PushSystem(c)
    \/ LoopStep(c)
    \/ Send(c)
    \/ TransportFail(c)
    \/ Receive(c, responses)
    \/ ReadText(c)
    \/ ReadJson(c)
    \/ Reconstruct(c)
    \/ Return(c)

---------------------------------------------------------------------------
(* Specifications. *)

\* one caller, short conversations, every response
Init == InitWith(Instances(PlainKeys))
Next == \E c \in {1} : Step(c, Systems, FewConversations, Responses)
Spec == Init /\ [][Next]_vars

\* one caller, every conversation and key, a sample of responses
InitReq == InitWith(Instances(Keys))
NextReq == \E c \in {1} : Step(c, Systems, Conversations, FewResponses)
SpecReq == InitReq /\ [][NextReq]_vars

\* two concurrent callers with different conversations
InitConc == InitWith(Instances(PlainKeys))
NextConc == \E c \in Calls : Step(c, Systems, ConcurrentConversations, FewResponses)
SpecConc == InitConc /\ [][NextConc]_vars

---------------------------------------------------------------------------
(* The claims.  Their vocabulary is written from the wire format, not from *)
(* the definitions above.                                                  *)

Returned(c) == pc[c] = "done"

\* the response of call c arrived with a 2xx status and its body was read
Got2xx(c) ==
    /\ response[c].t = "some"
    /\ response[c].status \in 200..299
    /\ response[c].readable

\* the body has the expected success shape: an object with a non-empty
\* choices array whose every element is an object carrying message.content
\* as a string
WellFormedChoices(body) ==
    /\ body.kind = "json"
    /\ body.t = "obj"
    /\ body.choices.t = "arr"
    /\ Len(body.choices.items) >= 1
    /\ \A k \in 1..Len(body.choices.items) :
          /\ body.choices.items[k].t = "obj"
          /\ body.choices.items[k].message.t = "obj"
          /\ body.choices.items[k].message.content.t = "str"

\* a member of a JSON value: by name in an object, by position in an array
Member(j, name, k) == IF j.t = "arr" THEN j.items[k] ELSE j[name]

\* choices[0].message.content of a body
FirstContent(body) ==
    Member(Member(Member(body, "choices", 1).items[1], "message", 1), "content", 1).s

\* the positions <<i, j>> of the Text parts of a conversation
TextPositions(ms) ==
    {p \in UNION {{<<i, j>> : j \in 1..Len(ms[i].content)} : i \in 1..Len(ms)} :
        ms[p[1]].content[p[2]].kind = "Text"}

\* p is at or before q in conversation order
AtOrBefore(p, q) == p[1] < q[1] \/ (p[1] = q[1] /\ p[2] <= q[2])

WireRole(role) == CASE role = "User" -> "user" [] role = "Assistant" -> "assistant"

\* the in-order flattening of a conversation: its k-th entry is the k-th Text part
Flattened(ms) ==
    LET P == TextPositions(ms) IN
    [k \in 1..Cardinality(P) |->
        LET p == CHOOSE q \in P : Cardinality({r \in P : AtOrBefore(r, q)}) = k IN
        [role |-> WireRole(ms[p[1]].role), content |-> ms[p[1]].content[p[2]].text]]

IsSystemEntry(e) == e.role = "system"
IsConversationEntry(e) == e.role # "system"

\* C1: a call whose response has a non-2xx status and a readable body returns
\* RequestFailed carrying exactly that body; the body is not decoded as JSON
\* and one request was sent.
C1_NonSuccessReturnsBody ==
    \A c \in Calls :
        ( /\ Returned(c)
          /\ response[c].t = "some"
          /\ response[c].status \notin 200..299
          /\ response[c].readable )
        => /\ result[c].t = "err"
           /\ result[c].error = "RequestFailed"
           /\ result[c].text = response[c].body
           /\ chat_response[c].t = "none"
           /\ posts[c] = 1

\* a 404 whose body is a well-formed completion was returned as RequestFailed
C1_Witness ==
    \E c \in Calls :
        /\ Returned(c)
        /\ response[c].t = "some"
        /\ response[c].status = 404
        /\ response[c].readable
        /\ WellFormedChoices(response[c].body)
        /\ result[c].t = "err"
        /\ result[c].error = "RequestFailed"

NoCounters == [input_tokens |-> [t |-> "none"], output_tokens |-> [t |-> "none"],
               total_tokens |-> [t |-> "none"]]

\* C2: a call whose response is 2xx with a well-formed body that has no usage
\* field returns success, and the three counters of the Usage are absent.
C2_MissingUsageIsEmpty ==
    \A c \in Calls :
        ( /\ Returned(c)
          /\ Got2xx(c)
          /\ WellFormedChoices(response[c].body)
          /\ response[c].body.usage.t = "absent" )
        => /\ result[c].t = "ok"
           /\ result[c].usage.usage = NoCounters

C2_Witness ==
    \E c \in Calls :
        /\ Returned(c)
        /\ Got2xx(c)
        /\ WellFormedChoices(response[c].body)
        /\ response[c].body.usage.t = "absent"
        /\ result[c].t = "ok"

\* a counter of the vendor's usage object, as the claim wants it reported
CounterOf(j) == IF j.t = "int" THEN [t |-> "some", n |-> j.n] ELSE [t |-> "none"]

\* C3: a call whose response is 2xx with valid choices and a usage object
\* that is incomplete or malformed still returns success with the message:
\* the counters present are copied, the others are absent.
C3_MalformedUsageTolerated ==
    \A c \in Calls :
        ( /\ Returned(c)
          /\ Got2xx(c)
          /\ WellFormedChoices(response[c].body)
          /\ response[c].body.usage.t = "obj"
          /\ \E f \in {"prompt_tokens", "completion_tokens", "total_tokens"} :
                response[c].body.usage[f].t # "int" )
        => /\ result[c].t = "ok"
           /\ result[c].message.content =
                 <<[kind |-> "Text", text |-> FirstContent(response[c].body)]>>
           /\ result[c].usage.usage =
                 [input_tokens |-> CounterOf(response[c].body.usage.prompt_tokens),
                  output_tokens |-> CounterOf(response[c].body.usage.completion_tokens),
                  total_tokens |-> CounterOf(response[c].body.usage.total_tokens)]

\* C4: the model name of the returned ProviderUsage is the response's model
\* name when the response carries one, and the requested one otherwise.
C4_ModelFromResponse ==
    \A c \in Calls :
        (Returned(c) /\ result[c].t = "ok")
        => result[c].usage.model =
              IF response[c].body.t = "obj" /\ response[c].body.model.t = "str"
              THEN response[c].body.model.s
              ELSE inst.model.model_name

\* C5: the non-system entries of the request's messages are the in-order
\* flattening of the conversation: one entry per Text part, with the part's
\* text and the role "user" or "assistant" of its message.
C5_ConversationFlattened ==
    \A c \in Calls :
        request[c].t = "some"
        => SelectSeq(request[c].body.messages, IsConversationEntry)
              = Flattened(args[c].messages)

\* a request was sent for a conversation with a message without any Text part
\* and a message whose Text part follows a non-text part
C5_Witness ==
    \E c \in Calls :
        /\ request[c].t = "some"
        /\ \E i \in 1..Len(args[c].messages) :
              \A j \in 1..Len(args[c].messages[i].content) :
                  args[c].messages[i].content[j].kind # "Text"
        /\ \E i \in 1..Len(args[c].messages) :
              /\ Len(args[c].messages[i].content) >= 2
              /\ args[c].messages[i].content[1].kind # "Text"
              /\ args[c].messages[i].content[2].kind = "Text"
        /\ Len(request[c].body.messages) >= 2

\* C6: the request's messages hold a "system" entry iff the system argument
\* is non-empty; then there is one, it is first, and its content is the
\* system argument.
C6_SystemEntry ==
    \A c \in Calls :
        request[c].t = "some"
        => LET ms == request[c].body.messages
               S == {k \in 1..Len(ms) : IsSystemEntry(ms[k])}
           IN /\ (S # {}) <=> (args[c].system # "")
              /\ args[c].system # "" => (S = {1} /\ ms[1].content = args[c].system)

C6_Witness ==
    \E c \in Calls :
        /\ request[c].t = "some"
        /\ args[c].system # ""
        /\ Len(request[c].body.messages) >= 3
        /\ request[c].body.messages[1].role = "system"

\* C7: a successful call returns a message of role Assistant whose content is
\* one Text part equal to choices[0].message.content of the response.
C7_FirstChoiceVerbatim ==
    \A c \in Calls :
        (Returned(c) /\ result[c].t = "ok")
        => /\ result[c].message.role = "Assistant"
           /\ result[c].message.content =
                 <<[kind |-> "Text", text |-> FirstContent(response[c].body)]>>

\* a call whose conversation ended with an Assistant message succeeded on a
\* response of two choices with different contents
C7_Witness ==
    \E c \in Calls :
        /\ Returned(c)
        /\ result[c].t = "ok"
        /\ Len(args[c].messages) >= 1
        /\ response[c].body.t = "obj"
        /\ Len(response[c].body.choices.items) = 2
        /\ response[c].body.choices.items[1] # response[c].body.choices.items[2]

\* a byte that http::HeaderValue rejects: a control character other than tab
RejectedByte(b) == (b < 32 /\ b # 9) \/ b = 127

KeyRejected == \E k \in 1..Len(inst.api_key) : RejectedByte(inst.api_key[k])

\* C8: a call issues at most one POST: exactly one when header construction
\* succeeds, whatever the outcome, and none when the API key is no valid
\* header value; then it returns ExecutionError before any message is
\* serialized or sent.
C8_AtMostOnePost ==
    \A c \in Calls :
        /\ posts[c] <= 1
        /\ Returned(c) =>
              IF KeyRejected
              THEN /\ posts[c] = 0
                   /\ result[c].t = "err"
                   /\ result[c].error = "ExecutionError"
                   /\ api_messages[c] = <<>>
                   /\ request[c].t = "none"
              ELSE posts[c] = 1

\* a call with a system prompt and a conversation returned without a POST
C8_Witness ==
    \E c \in Calls :
        /\ Returned(c)
        /\ KeyRejected
        /\ posts[c] = 0
        /\ args[c].system # ""
        /\ args[c].messages # <<>>

\* what the request of a call must hold, from the call's own arguments
ExpectedMessages(a) ==
    (IF a.system # "" THEN <<[role |-> "system", content |-> a.system]>> ELSE <<>>)
        \o Flattened(a.messages)

OwnRequestAndResult(c) ==
    /\ request[c].t = "some" => request[c].body.messages = ExpectedMessages(args[c])
    /\ result[c].t = "ok" =>
          /\ response[c].t = "some"
          /\ result[c].message.content =
                <<[kind |-> "Text", text |-> FirstContent(response[c].body)]>>
          /\ (result[c].usage.usage = NoCounters)
                <=> (Member(response[c].body, "usage", 2).t \in {"absent", "null"})
    /\ (result[c].t = "err" /\ result[c].error = "RequestFailed") =>
          /\ response[c].t = "some"
          /\ result[c].text = response[c].body

\* C9: in every interleaving of two concurrent calls on one instance, each
\* call's request is built from its own system and messages, each call's
\* result from the response to its own request, and no step changes the
\* instance's fields.
C9_CallsIndependent ==
    /\ [](\A c \in Calls : OwnRequestAndResult(c))
    /\ [][inst' = inst]_vars

\* both calls have sent different requests, were answered differently and
\* wait for the bodies of their responses
C9_Witness ==
    /\ pc[1] = "read_json"
    /\ pc[2] = "read_text"
    /\ args[1].messages # args[2].messages
    /\ request[1].body.messages # request[2].body.messages
    /\ response[1].status # response[2].status

\* C10: a call that received a 2xx response ends with a success value or a
\* typed ProviderError; a body that decodes to an empty choices array makes
\* it return ExecutionError.
C10_NoAbortOn2xx ==
    \A c \in Calls :
        ( /\ Returned(c)
          /\ response[c].t = "some"
          /\ response[c].status \in 200..299 )
        => /\ result[c].t \in {"ok", "err"}
           /\ ( /\ response[c].readable
                /\ response[c].body.kind = "json"
                /\ response[c].body.t = "obj"
                /\ response[c].body.choices.t = "arr"
                /\ Len(response[c].body.choices.items) = 0 )
              => (result[c].t = "err" /\ result[c].error = "ExecutionError")

====
